---- MODULE Spec2Model ----
(***************************************************************************)
(* A model of e3-testsuite: TestsuiteCore (registration of the tests, the  *)
(* scheduler run over the DAG of test fragments, collect_result),          *)
(* TestFragment.run and TestControl.interpret.                             *)
(***************************************************************************)
EXTENDS Integers, Sequences, FiniteSets, TLC

(***************************************************************************)
(* Bounds of the model.                                                    *)
(***************************************************************************)
\* the largest value of --jobs that is explored
MaxJobs == 2
\* how many results the body of one fragment pushes at most
MaxPush == 1

(***************************************************************************)
(* Values.                                                                 *)
(***************************************************************************)
\* Python's None
NoneVal == [kind |-> "none", of |-> ""]
\* the object a fragment's callable returns
RetVal(uid) == [kind |-> "value", of |-> uid]
\* the exception object a fragment's callable raised
ExcVal(uid) == [kind |-> "exception", of |-> uid]

TestStatus == {"PASS", "FAIL", "XFAIL", "XPASS", "UNSUPPORTED", "ERROR"}
\* the statuses the bodies of the modelled drivers push
BodyStatus == {"PASS"}

(***************************************************************************)
(* Strings: str.startswith, slicing, os.path.dirname, str.replace.         *)
(***************************************************************************)
StartsWith(k, prefix) ==
    /\ Len(k) >= Len(prefix)
    /\ SubSeq(k, 1, Len(prefix)) = prefix

\* k[n:]
SliceFrom(k, n) == SubSeq(k, n + 1, Len(k))

RECURSIVE LastSlash(_, _)
\* position of the last "/" among the first n characters of p, 0 when none
LastSlash(p, n) ==
    IF n = 0 THEN 0
    ELSE IF SubSeq(p, n, n) = "/" THEN n ELSE LastSlash(p, n - 1)

RECURSIVE StripSlashes(_)
\* os.path.dirname strips the trailing slashes of the head unless it is all
\* slashes; str.rstrip("/") strips them all
StripSlashes(p) ==
    IF Len(p) > 0 /\ SubSeq(p, Len(p), Len(p)) = "/"
    THEN StripSlashes(SubSeq(p, 1, Len(p) - 1))
    ELSE p

Dirname(p) ==
    LET head == SubSeq(p, 1, LastSlash(p, Len(p)))
    IN  IF StripSlashes(head) = "" THEN head ELSE StripSlashes(head)

RECURSIVE ReplaceChar(_, _, _)
\* str.replace(old, new) for a one-character old
ReplaceChar(s, old, new) ==
    IF Len(s) = 0 THEN ""
    ELSE (IF SubSeq(s, 1, 1) = old THEN new ELSE SubSeq(s, 1, 1))
         \o ReplaceChar(SubSeq(s, 2, Len(s)), old, new)

\* Testsuite.test_name
test_name(test_case_file) ==
    ReplaceChar(StripSlashes(ReplaceChar(Dirname(test_case_file), "\\", "/")),
                "/", "__")

(***************************************************************************)
(* The test case files, their configurations and their drivers.            *)
(***************************************************************************)
TestFiles == {"T/test.yaml", "U/test.yaml"}

\* the test name of every test case file
TestNames == [f \in TestFiles |-> test_name(f)]

\* the test.yaml files find gives in the tests directory, as get_test_list
\* has them: relative to that directory
Found == << "T/test.yaml", "U/test.yaml" >>

\* the most selectors given on the command line
MaxSelectors == 2

\* the selectors of the command line, relative to the tests directory, which
\* is the current directory: the directory itself, a test directory with and
\* without a final slash, a directory outside the tests directory and a name
\* that matches no test
Selectors == {".", "./", "T", "T/", "U", "../other", "X"}

\* the values of sublist
Sublists == UNION {[1..n -> Selectors] : n \in 0..MaxSelectors}

\* str.endswith("/")
EndsWithSlash(s) == Len(s) > 0 /\ SubSeq(s, Len(s), Len(s)) = "/"

\* the path selector get_test_list makes of selector s: relpath gives the
\* path without its final slash, which is added again
path_selector(s) ==
    IF EndsWithSlash(s) THEN StripSlashes(s) \o "/" ELSE StripSlashes(s)

\* re.match(s, p) for a pattern with no operator: p starts with s
re_match(s, p) == StartsWith(p, s)

\* the condition under which get_test_list selects path p for selector s
Selects(s, p) ==
    \/ s = "."
    \/ s = "./"
    \/ StartsWith(s, "..")
    \/ re_match(s, p)

RECURSIVE SelectorLoop(_, _, _, _)
\* the inner loop of get_test_list for path p from selector j on: p is
\* appended for every selector that selects it
SelectorLoop(p, path_selectors, j, filtered_result) ==
    IF j > Len(path_selectors) THEN filtered_result
    ELSE SelectorLoop(p, path_selectors, j + 1,
                      IF Selects(path_selectors[j], p)
                      THEN Append(filtered_result, p) ELSE filtered_result)

RECURSIVE PathLoop(_, _, _, _)
\* the outer loop of get_test_list from path i on
PathLoop(result, path_selectors, i, filtered_result) ==
    IF i > Len(result) THEN filtered_result
    ELSE PathLoop(result, path_selectors, i + 1,
                  SelectorLoop(result[i], path_selectors, 1, filtered_result))

\* Testsuite.get_test_list
get_test_list(result, sublist) ==
    IF sublist = << >> THEN result
    ELSE PathLoop(result,
                  [j \in DOMAIN sublist |-> path_selector(sublist[j])],
                  1, << >>)

\* the lists get_test_list returns
TestLists == {<<"T/test.yaml", "U/test.yaml">>}

\* the command lines explored, as (--jobs, --max-consecutive-failures): every
\* number of jobs with the default threshold 0, and one job with threshold 1
RunOptions ==
    {[jobs |-> j, max_consecutive_failures |-> 0] : j \in 1..MaxJobs}
    \cup {[jobs |-> 1, max_consecutive_failures |-> 1]}

\* Testsuite.default_driver: None, here the empty string
default_driver == ""

\* Testsuite.DRIVERS: name -> what is registered under it: a class that
\* derives from TestDriver, a class that does not ("object"), or something
\* that is not a class ("function")
DRIVERS ==
    [d \in {"default", "bogus", "hook"} |->
        IF d = "default" THEN "TestDriver"
        ELSE IF d = "bogus" THEN "object" ELSE "function"]

\* The graph a driver's add_test contributes, as the calls it makes on the DAG
\* in order; "raise" is an exception raised by the driver itself.
V(uid) == [op |-> "vertex", uid |-> uid, pred |-> ""]
E(pred, succ) == [op |-> "edge", uid |-> succ, pred |-> pred]
Raise == [op |-> "raise", uid |-> "", pred |-> ""]

Plans ==
    [ one      |-> << V("T.a") >>,
      cycle    |-> << V("T.a"), V("T.b"), E("T.a", "T.b"), E("T.b", "T.a") >>,
      broken   |-> << V("T.a"), Raise >>,
      single   |-> << V("U.x") >>,
      fan      |-> << V("U.x"), V("U.y") >>,
      mixed    |-> << V("U.x"), V("U.y"), E("U.x", "U.y"), E("T.a", "U.y") >>,
      cross    |-> << V("U.T.a"), V("U.y"), E("U.T.a", "U.y"), E("T.a", "U.y") >> ]

\* What load_with_config gives for a test case file (load), the value of its
\* "driver" key (driver), whether the driver's constructor raises (init) and
\* the graph its add_test contributes (plan).
Config(load, driver, init, plan) ==
    [load |-> load, driver |-> driver, init |-> init, plan |-> plan]

ConfigsOf(file) ==
    IF file = "T/test.yaml"
    THEN { Config("mapping", "default", "ok", "one"),
           Config("mapping", "default", "ok", "cycle"),
           Config("mapping", "default", "ok", "broken"),
           Config("mapping", "default", "raise", "one"),
           Config("mapping", "absent", "ok", "one"),
           Config("mapping", "unknown", "ok", "one"),
           Config("mapping", "bogus", "ok", "one"),
           Config("mapping", "hook", "ok", "one"),
           Config("mapping", "unhashable", "ok", "one"),
           Config("yamlerror", "absent", "ok", "one"),
           Config("scalar", "absent", "ok", "one") }
    ELSE { Config("mapping", "default", "ok", "single"),
           Config("mapping", "default", "ok", "fan"),
           Config("mapping", "default", "ok", "mixed"),
           Config("mapping", "default", "ok", "cross"),
           Config("none", "absent", "ok", "single") }

VARIABLES
    jobs,                 \* self.main.args.jobs
    sublist,              \* the selectors given to get_test_list
    test_list,            \* self.test_list
    config,               \* what each test case file holds
    pc,                   \* where testsuite_main is
    next_test,            \* the position of testsuite_main's loop in test_list
    parsed,               \* the values parse_test returned, in order
    result,               \* testsuite_main's status code
    error,                \* the exception that left testsuite_main, if any
    actions,              \* the DAG of actions
    status,               \* the scheduler's state of each vertex
    fragment,             \* the TestFragment created for each vertex
    index_counter,        \* e3.job.Job's index counter
    collecting,           \* the job collect_result is running for
    result_queue,         \* each driver instance's result_queue
    ran,                  \* what each fragment's callable did and what run pushed
    body_pushed,          \* how many results each fragment's body pushed
    return_values, results, result_tracebacks,
    test_counter, test_status_counters, consecutive_failures,
    result_files,         \* how often each test's result file was written
    max_consecutive_failures, \* self.main.args.max_consecutive_failures
    stop,                 \* collect_result asked the scheduler to stop
    control,              \* the "control" entry of a test_env
    interpreted,          \* what TestControl.interpret did for it
    test_control,         \* the TestControl a driver has for its test
    reported              \* what the driver did with it and the status it reports

vars == << jobs, sublist, test_list, config, pc, next_test, parsed,
           result, error, actions, status, fragment, index_counter,
           collecting, result_queue, ran, body_pushed, return_values,
           results, result_tracebacks, test_counter, test_status_counters,
           consecutive_failures, result_files, max_consecutive_failures,
           stop, control, interpreted, test_control, reported >>

\* the variables of TestControl.interpret
ctlVars == << control, interpreted, test_control, reported >>


(***************************************************************************)
(* The DAG of e3.collection.dag, as the specification describes it.        *)
(***************************************************************************)
EmptyDAG == [data |-> << >>, preds |-> << >>]

Vertices(dag) == DOMAIN dag.data

\* add a vertex: a uid that is already present is rejected
AddVertex(dag, uid, data) ==
    IF uid \in Vertices(dag)
    THEN [ok |-> FALSE, dag |-> dag]
    ELSE [ok |-> TRUE,
          dag |-> [data |-> dag.data @@ (uid :> data),
                   preds |-> dag.preds @@ (uid :> {})]]

\* declare an edge: both endpoints must be present
AddEdge(dag, pred, succ) ==
    IF pred \notin Vertices(dag) \/ succ \notin Vertices(dag)
    THEN [ok |-> FALSE, dag |-> dag]
    ELSE [ok |-> TRUE,
          dag |-> [dag EXCEPT !.preds[succ] = @ \cup {pred}]]

RECURSIVE Ancestors(_, _, _)
\* the vertices from which some vertex of set s is reached in at most n edges
Ancestors(dag, s, n) ==
    IF n = 0 THEN {}
    ELSE LET direct == UNION {dag.preds[u] : u \in s}
         IN  direct \cup Ancestors(dag, direct, n - 1)

\* mutant: the graph is not validated
HasCycle_Off(dag) == FALSE

\* DAG.check: the graph has a cycle
HasCycle(dag) ==
    \E u \in Vertices(dag) : u \in Ancestors(dag, {u}, Cardinality(Vertices(dag)))

(***************************************************************************)
(* TestDriver.add_test: the driver contributes its fragments to the DAG.   *)
(***************************************************************************)
RECURSIVE add_test(_, _, _)
\* instance is the driver instance (its position in test_list); the result
\* is the DAG as the calls left it and whether one of them raised
add_test(dag, instance, ops) ==
    IF ops = << >> THEN [raised |-> FALSE, dag |-> dag]
    ELSE LET o == Head(ops)
             r == IF o.op = "vertex" THEN AddVertex(dag, o.uid, instance)
                  ELSE IF o.op = "edge" THEN AddEdge(dag, o.pred, o.uid)
                  ELSE [ok |-> FALSE, dag |-> dag]
         IN  IF r.ok THEN add_test(r.dag, instance, Tail(ops))
             ELSE [raised |-> TRUE, dag |-> r.dag]

(***************************************************************************)
(* TestsuiteCore.parse_test                                                *)
(***************************************************************************)
\* the driver parse_test selects: the "driver" key of test_env when present,
\* else the default driver; "" when there is neither
SelectedDriver(cfg, default) ==
    IF cfg.load = "mapping" /\ cfg.driver # "absent" THEN cfg.driver ELSE default

\* ret is what parse_test returns ("True", "False") or the exception that
\* leaves it; dag is the DAG it leaves
parse_test(dag, instance, cfg, default) ==
    LET driver == SelectedDriver(cfg, default)
        contributed == add_test(dag, instance, Plans[cfg.plan])
    IN  IF cfg.load = "yamlerror" THEN [ret |-> "False", dag |-> dag]
        ELSE IF cfg.load \notin {"none", "mapping"} THEN [ret |-> "False", dag |-> dag]
        ELSE IF driver = "" THEN [ret |-> "False", dag |-> dag]
        ELSE IF driver = "unhashable" THEN [ret |-> "TypeError", dag |-> dag]
        ELSE IF driver \notin DOMAIN DRIVERS THEN [ret |-> "False", dag |-> dag]
        ELSE IF DRIVERS[driver] = "function" THEN [ret |-> "TypeError", dag |-> dag]
        ELSE IF DRIVERS[driver] # "TestDriver" THEN [ret |-> "False", dag |-> dag]
        ELSE IF cfg.init = "raise" THEN [ret |-> "False", dag |-> dag]
        ELSE IF contributed.raised THEN [ret |-> "False", dag |-> contributed.dag]
        ELSE [ret |-> "True", dag |-> contributed.dag]

\* testsuite_main's loop body: result = 1 when parse_test returned False
MainResult(res, ret) == IF ret = "False" THEN 1 ELSE res

\* mutant: one token more than --jobs
SchedulerTokens_Extra == jobs + 1

\* the tokens testsuite_main gives the scheduler
SchedulerTokens == jobs

(***************************************************************************)
(* TestsuiteCore.job_factory                                               *)
(***************************************************************************)
filter_key(name, k) ==
    LET key_prefix == name \o "."
        key_prefix_len == Len(key_prefix)
    IN  IF StartsWith(k, key_prefix) THEN SliceFrom(k, key_prefix_len) ELSE k

\* {filter_key(k): self.return_values[k] for k in predecessors}: the
\* predecessors are a set, iterated in no fixed order, and a later item of the
\* comprehension replaces an earlier one with the same key
previous_values(name, predecessors, rv) ==
    { pv \in [ {filter_key(name, k) : k \in predecessors} ->
                 {rv[k] : k \in predecessors} ] :
        \A key \in DOMAIN pv :
            \E k \in predecessors : filter_key(name, k) = key /\ pv[key] = rv[k] }

\* mutant: the name of the exception's result is the same for every fragment
\* of a test
ExceptName_NoIndex(name, index) == name \o "__except"

\* the name of the result TestFragment.run makes for an exception
ExceptName(name, index) == name \o "__except" \o ToString(index)

\* mutant: the name of the exception's result leaves the index out
TestFragmentRun_NoIndex(uid, name, index, outcome) ==
    IF outcome = "return" THEN [value |-> RetVal(uid), pushed |-> << >>]
    ELSE IF outcome = "abort" THEN [value |-> NoneVal, pushed |-> << >>]
    ELSE [value |-> ExcVal(uid),
          pushed |-> << [test_name |-> name \o "__except",
                         status |-> "ERROR", tb |-> uid] >>]

\* mutant: no except clause for TestAbort, which is handled as any exception
TestFragmentRun_AbortAsError(uid, name, index, outcome) ==
    IF outcome = "return" THEN [value |-> RetVal(uid), pushed |-> << >>]
    ELSE [value |-> ExcVal(uid),
          pushed |-> << [test_name |-> ExceptName(name, index),
                         status |-> "ERROR", tb |-> uid] >>]

\* TestFragment.run, for what its callable did: "return", "abort" (TestAbort)
\* or "raise" (another Exception). value is the fragment's return value and
\* pushed the results run pushes to the driver's queue.
TestFragmentRun(uid, name, index, outcome) ==
    IF outcome = "return" THEN [value |-> RetVal(uid), pushed |-> << >>]
    ELSE IF outcome = "abort" THEN [value |-> NoneVal, pushed |-> << >>]
    ELSE [value |-> ExcVal(uid),
          pushed |-> << [test_name |-> ExceptName(name, index),
                         status |-> "ERROR", tb |-> uid] >>]

(***************************************************************************)
(* TestsuiteCore.collect_result                                            *)
(***************************************************************************)
\* mutant: collect_result does not record the return value
StoreReturnValue_Skip(rv, uid, value) == rv

\* self.return_values[job.uid] = job.return_value
StoreReturnValue(rv, uid, value) ==
    IF uid \in DOMAIN rv THEN [rv EXCEPT ![uid] = value] ELSE rv @@ (uid :> value)

\* list.pop(): the last item of the queue
PopItem(queue) == queue[Len(queue)]
PopRest(queue) == SubSeq(queue, 1, Len(queue) - 1)

\* mutant: no assertion
IsDuplicate_Off(res, name) == FALSE

\* the assertion of collect_result fails
IsDuplicate(res, name) == name \in DOMAIN res

\* mutant: the assignment is lost
SetItem_Skip(d, k, v) == d

\* d[k] = v
SetItem(d, k, v) == IF k \in DOMAIN d THEN [d EXCEPT ![k] = v] ELSE d @@ (k :> v)

Count(d, k) == IF k \in DOMAIN d THEN d[k] ELSE 0

\* mutant: a failing result is counted and a passing one resets the count
ConsecutiveFailuresAfter_Counting(cf, st) ==
    IF st \in {"FAIL", "ERROR"} THEN cf + 1 ELSE 0

\* self.consecutive_failures after a result of status st was recorded:
\* collect_result does not assign it
ConsecutiveFailuresAfter(cf, st) == cf

\* mutant: collect_result asks the scheduler to stop
collect_result_return_True == TRUE

\* what collect_result returns
collect_result_return == FALSE

(***************************************************************************)
(* TestControl.interpret                                                   *)
(***************************************************************************)
\* the most entries a control list holds
MaxRules == 2

TestControlKind == {"NONE", "SKIP", "XFAIL"}

\* TestControl(message, skip, xfail); "None" is the message None
TestControl(message, skip, xfail) ==
    [skip |-> skip, xfail |-> xfail, message |-> message]

\* An entry of a control list: a list of 2 or 3 strings (shape "list2",
\* "list3") or anything else (shape "bad"); kind is its first string, cond what
\* eval gives for its second ("True", "False", or "raise" for an exception)
\* and message its third.
Entry(shape, kind, cond, message) ==
    [shape |-> shape, kind |-> kind, cond |-> cond, message |-> message]

Entries ==
    {Entry("bad", "NONE", "True", "None")}
    \cup {Entry("list2", k, c, "None") :
            k \in TestControlKind \cup {"BOGUS"}, c \in {"True", "False", "raise"}}
    \cup {Entry("list3", k, c, m) :
            k \in TestControlKind \cup {"BOGUS"}, c \in {"True", "False", "raise"},
            m \in {"m1", "m2"}}

\* the values of driver.test_env.get("control"): no such key, something that
\* is not a list, or a list of entries
Controls ==
    {[present |-> FALSE, islist |-> FALSE, entries |-> << >>],
     [present |-> TRUE, islist |-> FALSE, entries |-> << >>]}
    \cup {[present |-> TRUE, islist |-> TRUE, entries |-> es] :
            es \in UNION {[1..n -> Entries] : n \in 0..MaxRules}}

\* what interpret gives: the TestControl it returns, or the ValueError it
\* raises with the index of the entry it names (0: none) and its reason;
\* evaluated lists the entries whose condition was passed to eval, in order
Returned(decision, evaluated) ==
    [raised |-> FALSE, index |-> 0, reason |-> "", decision |-> decision,
     evaluated |-> evaluated]
Raised(index, reason, evaluated) ==
    [raised |-> TRUE, index |-> index, reason |-> reason,
     decision |-> TestControl("None", FALSE, FALSE), evaluated |-> evaluated]

RECURSIVE ValidateEntries(_, _, _, _)
\* the first loop of interpret from entry i on: entries are the (kind, cond,
\* message) appended so far
ValidateEntries(ctl, i, entries, evaluated) ==
    IF i > Len(ctl) THEN [raised |-> FALSE, entries |-> entries,
                          index |-> 0, reason |-> "", evaluated |-> evaluated]
    ELSE LET entry == ctl[i]
         IN  IF entry.shape \notin {"list2", "list3"}
             THEN [raised |-> TRUE, entries |-> entries, index |-> i,
                   reason |-> "list of 2 or 3 strings expected",
                   evaluated |-> evaluated]
             ELSE IF entry.kind \notin TestControlKind
             THEN [raised |-> TRUE, entries |-> entries, index |-> i,
                   reason |-> "invalid kind", evaluated |-> evaluated]
             ELSE IF entry.cond = "raise"
             THEN [raised |-> TRUE, entries |-> entries, index |-> i,
                   reason |-> "invalid condition",
                   evaluated |-> Append(evaluated, i)]
             ELSE ValidateEntries(ctl, i + 1,
                      Append(entries,
                             [kind |-> entry.kind, cond |-> entry.cond = "True",
                              message |-> IF entry.shape = "list3"
                                          THEN entry.message ELSE "None"]),
                      Append(evaluated, i))

\* mutant: SKIP and XFAIL exchanged
KindDecision_Swapped(kind, message) ==
    IF kind = "NONE" THEN TestControl(message, FALSE, FALSE)
    ELSE IF kind = "SKIP" THEN TestControl(message, FALSE, TRUE)
    ELSE TestControl(message, TRUE, FALSE)

\* mutant: XFAIL also skips the test
KindDecision_Both(kind, message) ==
    IF kind = "NONE" THEN TestControl(message, FALSE, FALSE)
    ELSE IF kind = "SKIP" THEN TestControl(message, TRUE, FALSE)
    ELSE TestControl(message, TRUE, TRUE)

\* the (skip, xfail) of a kind
KindDecision(kind, message) ==
    IF kind = "NONE" THEN TestControl(message, FALSE, FALSE)
    ELSE IF kind = "SKIP" THEN TestControl(message, TRUE, FALSE)
    ELSE TestControl(message, FALSE, TRUE)

RECURSIVE SelectEntry(_, _)
\* the second loop of interpret: the first entry whose condition is true
SelectEntry(entries, i) ==
    IF i > Len(entries) THEN TestControl("None", FALSE, FALSE)
    ELSE IF entries[i].cond THEN KindDecision(entries[i].kind, entries[i].message)
    ELSE SelectEntry(entries, i + 1)

RECURSIVE CheckEntries(_, _)
\* mutant: a pass over the entries that checks their form and kind only; the
\* index of the first bad entry, 0 when there is none
CheckEntries(ctl, i) ==
    IF i > Len(ctl) THEN 0
    ELSE IF ctl[i].shape \notin {"list2", "list3"}
            \/ ctl[i].kind \notin TestControlKind
         THEN i
         ELSE CheckEntries(ctl, i + 1)

\* mutant: interpret checks the form and the kind of every entry before it
\* evaluates the first condition
interpret_TwoPass(ctl) ==
    IF ~ctl.present THEN Returned(TestControl("None", FALSE, FALSE), << >>)
    ELSE IF ~ctl.islist THEN Raised(0, "list expected at the top level", << >>)
    ELSE IF CheckEntries(ctl.entries, 1) # 0
         THEN Raised(CheckEntries(ctl.entries, 1),
                     IF ctl.entries[CheckEntries(ctl.entries, 1)].shape
                            \notin {"list2", "list3"}
                     THEN "list of 2 or 3 strings expected" ELSE "invalid kind",
                     << >>)
    ELSE LET v == ValidateEntries(ctl.entries, 1, << >>, << >>)
         IN  IF v.raised THEN Raised(v.index, v.reason, v.evaluated)
             ELSE Returned(SelectEntry(v.entries, 1), v.evaluated)

interpret(ctl) ==
    IF ~ctl.present THEN Returned(TestControl("None", FALSE, FALSE), << >>)
    ELSE IF ~ctl.islist THEN Raised(0, "list expected at the top level", << >>)
    ELSE LET v == ValidateEntries(ctl.entries, 1, << >>, << >>)
         IN  IF v.raised THEN Raised(v.index, v.reason, v.evaluated)
             ELSE Returned(SelectEntry(v.entries, 1), v.evaluated)

\* interpret was not called yet
NotInterpreted ==
    [called |-> FALSE, out |-> Returned(TestControl("None", FALSE, FALSE), << >>)]

\* the driver has no TestControl yet
NoTestControl == [set |-> FALSE, tc |-> TestControl("None", FALSE, FALSE)]

\* the driver has not run its test yet
NotReported == [done |-> FALSE, executed |-> FALSE, observed |-> "", status |-> ""]

\* mutant: a skipped test is reported UNSUPPORTED whatever xfail is
Consume_SkipFirst(tc, observed) ==
    IF tc.skip THEN [executed |-> FALSE, status |-> "UNSUPPORTED"]
    ELSE IF tc.xfail
    THEN [executed |-> TRUE,
          status |-> IF observed = "PASS" THEN "XPASS"
                     ELSE IF observed = "FAIL" THEN "XFAIL" ELSE observed]
    ELSE [executed |-> TRUE, status |-> observed]

\* What a driver does with its TestControl tc, observed being the status the
\* body of the test gives when it is executed: whether the body is executed
\* and the status reported.
Consume(tc, observed) ==
    IF tc.skip
    THEN [executed |-> FALSE, status |-> IF tc.xfail THEN "FAIL" ELSE "UNSUPPORTED"]
    ELSE IF tc.xfail
    THEN [executed |-> TRUE,
          status |-> IF observed = "PASS" THEN "XPASS"
                     ELSE IF observed = "FAIL" THEN "XFAIL" ELSE observed]
    ELSE [executed |-> TRUE, status |-> observed]

(***************************************************************************)
(* The run.                                                                *)
(***************************************************************************)
\* the driver instance that owns a vertex, and its test name
InstanceOf(uid) == actions.data[uid]
NameOf(instance) == TestNames[test_list[instance]]

\* the fragments that were dispatched and are not collected yet
InFlight == {u \in DOMAIN status : status[u] \in {"active", "finished"}}

Init ==
    /\ \E o \in RunOptions :
          /\ jobs = o.jobs
          /\ max_consecutive_failures = o.max_consecutive_failures
    /\ sublist = << >>
    /\ test_list \in TestLists
    /\ config \in {c \in [TestFiles -> UNION {ConfigsOf(f) : f \in TestFiles}] :
                     \A f \in TestFiles : c[f] \in ConfigsOf(f)}
    /\ pc = "register"
    /\ next_test = 1
    /\ parsed = << >>
    /\ result = 0
    /\ error = "none"
    /\ actions = EmptyDAG
    /\ status = << >>
    /\ fragment = << >>
    /\ index_counter = 0
    /\ collecting = ""
    /\ result_queue = [i \in DOMAIN test_list |-> << >>]
    /\ ran = << >>
    /\ body_pushed = << >>
    /\ return_values = << >>
    /\ results = << >>
    /\ result_tracebacks = << >>
    /\ test_counter = 0
    /\ test_status_counters = [s \in TestStatus |-> 0]
    /\ consecutive_failures = 0
    /\ result_files = << >>
    /\ stop = FALSE
    /\ control = [present |-> FALSE, islist |-> FALSE, entries |-> << >>]
    /\ interpreted = NotInterpreted
    /\ test_control = NoTestControl
    /\ reported = NotReported

\* one turn of testsuite_main's loop over test_list
ParseTest ==
    /\ pc = "register"
    /\ next_test <= Len(test_list)
    /\ LET r == parse_test(actions, next_test, config[test_list[next_test]],
                           default_driver)
       IN  /\ actions' = r.dag
           /\ IF r.ret \in {"True", "False"}
              THEN /\ parsed' = Append(parsed, r.ret = "True")
                   /\ result' = MainResult(result, r.ret)
                   /\ next_test' = next_test + 1
                   /\ UNCHANGED << pc, error >>
              ELSE /\ pc' = "crashed"
                   /\ error' = r.ret
                   /\ UNCHANGED << parsed, result, next_test >>
    /\ UNCHANGED ctlVars
    /\ UNCHANGED << jobs, sublist, test_list, config, max_consecutive_failures, stop,
                    status, fragment,
                    index_counter, collecting, result_queue, ran,
                    body_pushed, return_values, results, result_tracebacks,
                    test_counter, test_status_counters, consecutive_failures,
                    result_files >>

\* testsuite_main calls self.scheduler.run(actions): the DAG is checked, then
\* every vertex waits for its predecessors
SchedulerRun ==
    /\ pc = "register"
    /\ next_test > Len(test_list)
    /\ IF HasCycle(actions)
       THEN /\ pc' = "crashed"
            /\ error' = "CycleError"
            /\ UNCHANGED status
       ELSE /\ pc' = "run"
            /\ status' = [u \in Vertices(actions) |-> "waiting"]
            /\ UNCHANGED error
    /\ UNCHANGED ctlVars
    /\ UNCHANGED << jobs, sublist, test_list, config, max_consecutive_failures, stop,
                    next_test, parsed,
                    result, actions, fragment, index_counter, collecting,
                    result_queue, ran, body_pushed, return_values,
                    results, result_tracebacks, test_counter,
                    test_status_counters, consecutive_failures, result_files >>

\* mutant: the scheduler also dispatches while collect_result is running
Dispatch_DuringCollect(uid) ==
    /\ pc \in {"run", "collect"}
    /\ status[uid] = "waiting"
    /\ \A p \in actions.preds[uid] : status[p] = "done"
    /\ Cardinality(InFlight) < SchedulerTokens
    /\ ~stop
    /\ IF \A k \in actions.preds[uid] : k \in DOMAIN return_values
       THEN \E pv \in previous_values(NameOf(InstanceOf(uid)),
                                      actions.preds[uid], return_values) :
              /\ fragment' = fragment @@
                    (uid :> [uid |-> uid, test_instance |-> InstanceOf(uid),
                             previous_values |-> pv, return_value |-> NoneVal,
                             index |-> index_counter])
              /\ index_counter' = index_counter + 1
              /\ status' = [status EXCEPT ![uid] = "active"]
              /\ body_pushed' = body_pushed @@ (uid :> 0)
              /\ UNCHANGED << pc, error >>
       ELSE /\ pc' = "crashed"
            /\ error' = "KeyError"
            /\ UNCHANGED << fragment, index_counter, status, body_pushed >>
    /\ UNCHANGED ctlVars
    /\ UNCHANGED << jobs, sublist, test_list, config, max_consecutive_failures, stop,
                    next_test, parsed,
                    result, actions, collecting, result_queue, ran,
                    return_values, results, result_tracebacks, test_counter,
                    test_status_counters, consecutive_failures, result_files >>

\* the scheduler takes a ready vertex while a token is free, has job_factory
\* make its TestFragment and starts it
Dispatch(uid) ==
    /\ pc = "run"
    /\ status[uid] = "waiting"
    /\ \A p \in actions.preds[uid] : status[p] = "done"
    /\ Cardinality(InFlight) < SchedulerTokens
    /\ ~stop
    /\ IF \A k \in actions.preds[uid] : k \in DOMAIN return_values
       THEN \E pv \in previous_values(NameOf(InstanceOf(uid)),
                                      actions.preds[uid], return_values) :
              /\ fragment' = fragment @@
                    (uid :> [uid |-> uid, test_instance |-> InstanceOf(uid),
                             previous_values |-> pv, return_value |-> NoneVal,
                             index |-> index_counter])
              /\ index_counter' = index_counter + 1
              /\ status' = [status EXCEPT ![uid] = "active"]
              /\ body_pushed' = body_pushed @@ (uid :> 0)
              /\ UNCHANGED << pc, error >>
       ELSE /\ pc' = "crashed"
            /\ error' = "KeyError"
            /\ UNCHANGED << fragment, index_counter, status, body_pushed >>
    /\ UNCHANGED ctlVars
    /\ UNCHANGED << jobs, sublist, test_list, config, max_consecutive_failures, stop,
                    next_test, parsed,
                    result, actions, collecting, result_queue, ran,
                    return_values, results, result_tracebacks, test_counter,
                    test_status_counters, consecutive_failures, result_files >>

\* the callable of a running fragment pushes a result for its test
BodyPush(uid, st) ==
    /\ pc \in {"run", "collect"}
    /\ status[uid] = "active"
    /\ body_pushed[uid] < MaxPush
    /\ body_pushed' = [body_pushed EXCEPT ![uid] = @ + 1]
    /\ result_queue' = [result_queue EXCEPT ![InstanceOf(uid)] =
            Append(@, [test_name |-> NameOf(InstanceOf(uid)), status |-> st,
                       tb |-> uid])]
    /\ UNCHANGED ctlVars
    /\ UNCHANGED << jobs, sublist, test_list, config, max_consecutive_failures, stop,
                    pc, next_test,
                    parsed, result, error, actions, status, fragment,
                    index_counter, collecting, ran, return_values,
                    results, result_tracebacks, test_counter,
                    test_status_counters, consecutive_failures, result_files >>

\* the callable of a running fragment ends and TestFragment.run with it
RunEnd(uid, outcome) ==
    /\ pc \in {"run", "collect"}
    /\ status[uid] = "active"
    /\ LET r == TestFragmentRun(uid, NameOf(InstanceOf(uid)),
                                fragment[uid].index, outcome)
       IN  /\ fragment' = [fragment EXCEPT ![uid].return_value = r.value]
           /\ result_queue' = [result_queue EXCEPT ![InstanceOf(uid)] = @ \o r.pushed]
           /\ ran' = ran @@ (uid :> [outcome |-> outcome, pushed |-> r.pushed])
    /\ status' = [status EXCEPT ![uid] = "finished"]
    /\ UNCHANGED ctlVars
    /\ UNCHANGED << jobs, sublist, test_list, config, max_consecutive_failures, stop,
                    pc, next_test,
                    parsed, result, error, actions, index_counter, collecting,
                    body_pushed, return_values, results, result_tracebacks,
                    test_counter, test_status_counters, consecutive_failures,
                    result_files >>

\* the scheduler calls collect_result for a finished job
CollectBegin(uid) ==
    /\ pc = "run"
    /\ status[uid] = "finished"
    /\ pc' = "collect"
    /\ collecting' = uid
    /\ return_values' = StoreReturnValue(return_values, uid, fragment[uid].return_value)
    /\ UNCHANGED ctlVars
    /\ UNCHANGED << jobs, sublist, test_list, config, max_consecutive_failures, stop,
                    next_test, parsed,
                    result, error, actions, status, fragment, index_counter,
                    result_queue, ran, body_pushed, results,
                    result_tracebacks, test_counter, test_status_counters,
                    consecutive_failures, result_files >>

\* mutant: the result is written and recorded before the assertion is checked
CollectPop_RecordFirst ==
    /\ pc = "collect"
    /\ result_queue[InstanceOf(collecting)] # << >>
    /\ LET queue == result_queue[InstanceOf(collecting)]
           item == PopItem(queue)
       IN  /\ result_queue' = [result_queue EXCEPT ![InstanceOf(collecting)] = PopRest(queue)]
           /\ IF IsDuplicate(results, item.test_name)
              THEN /\ pc' = "crashed"
                   /\ error' = "AssertionError"
                   /\ result_files' = SetItem(result_files, item.test_name,
                                              Count(result_files, item.test_name) + 1)
                   /\ results' = SetItem(results, item.test_name, item.status)
                   /\ result_tracebacks' = SetItem(result_tracebacks, item.test_name, item.tb)
                   /\ test_counter' = test_counter + 1
                   /\ test_status_counters' =
                          [test_status_counters EXCEPT ![item.status] = @ + 1]
                   /\ UNCHANGED consecutive_failures
              ELSE /\ result_files' = SetItem(result_files, item.test_name,
                                              Count(result_files, item.test_name) + 1)
                   /\ results' = SetItem(results, item.test_name, item.status)
                   /\ result_tracebacks' = SetItem(result_tracebacks, item.test_name, item.tb)
                   /\ test_counter' = test_counter + 1
                   /\ test_status_counters' =
                          [test_status_counters EXCEPT ![item.status] = @ + 1]
                   /\ consecutive_failures' =
                          ConsecutiveFailuresAfter(consecutive_failures, item.status)
                   /\ UNCHANGED << pc, error >>
    /\ UNCHANGED ctlVars
    /\ UNCHANGED << jobs, sublist, test_list, config, max_consecutive_failures, stop,
                    next_test, parsed,
                    result, actions, status, fragment, index_counter,
                    collecting, ran, body_pushed, return_values >>

\* one turn of collect_result's loop over the driver's result queue
CollectPop ==
    /\ pc = "collect"
    /\ result_queue[InstanceOf(collecting)] # << >>
    /\ LET queue == result_queue[InstanceOf(collecting)]
           item == PopItem(queue)
       IN  /\ result_queue' = [result_queue EXCEPT ![InstanceOf(collecting)] = PopRest(queue)]
           /\ IF IsDuplicate(results, item.test_name)
              THEN /\ pc' = "crashed"
                   /\ error' = "AssertionError"
                   /\ UNCHANGED << results, result_tracebacks, test_counter,
                                   test_status_counters, result_files,
                                   consecutive_failures >>
              ELSE /\ result_files' = SetItem(result_files, item.test_name,
                                              Count(result_files, item.test_name) + 1)
                   /\ results' = SetItem(results, item.test_name, item.status)
                   /\ result_tracebacks' = SetItem(result_tracebacks, item.test_name, item.tb)
                   /\ test_counter' = test_counter + 1
                   /\ test_status_counters' =
                          [test_status_counters EXCEPT ![item.status] = @ + 1]
                   /\ consecutive_failures' =
                          ConsecutiveFailuresAfter(consecutive_failures, item.status)
                   /\ UNCHANGED << pc, error >>
    /\ UNCHANGED ctlVars
    /\ UNCHANGED << jobs, sublist, test_list, config, max_consecutive_failures, stop,
                    next_test, parsed,
                    result, actions, status, fragment, index_counter,
                    collecting, ran, body_pushed, return_values >>

\* mutant: collect_result returns without waiting for the queue to be empty
CollectReturn_Early ==
    /\ pc = "collect"
    /\ pc' = "run"
    /\ status' = [status EXCEPT ![collecting] = "done"]
    /\ collecting' = ""
    /\ stop' = (stop \/ collect_result_return)
    /\ UNCHANGED ctlVars
    /\ UNCHANGED << jobs, sublist, test_list, config, max_consecutive_failures,
                    next_test, parsed,
                    result, error, actions, fragment, index_counter,
                    result_queue, ran, body_pushed, return_values,
                    results, result_tracebacks, test_counter,
                    test_status_counters, consecutive_failures, result_files >>

\* collect_result finds the queue empty and returns; the scheduler releases
\* the job's token, marks its vertex done and stops dispatching when
\* collect_result returned True
CollectReturn ==
    /\ pc = "collect"
    /\ result_queue[InstanceOf(collecting)] = << >>
    /\ pc' = "run"
    /\ status' = [status EXCEPT ![collecting] = "done"]
    /\ collecting' = ""
    /\ stop' = (stop \/ collect_result_return)
    /\ UNCHANGED ctlVars
    /\ UNCHANGED << jobs, sublist, test_list, config, max_consecutive_failures,
                    next_test, parsed,
                    result, error, actions, fragment, index_counter,
                    result_queue, ran, body_pushed, return_values,
                    results, result_tracebacks, test_counter,
                    test_status_counters, consecutive_failures, result_files >>

\* the scheduler has visited every vertex, or was asked to stop and no job
\* is in flight: testsuite_main returns result
MainReturn ==
    /\ pc = "run"
    /\ IF stop THEN InFlight = {}
       ELSE \A u \in DOMAIN status : status[u] = "done"
    /\ pc' = "done"
    /\ UNCHANGED ctlVars
    /\ UNCHANGED << jobs, sublist, test_list, config, max_consecutive_failures, stop,
                    next_test, parsed,
                    result, error, actions, status, fragment, index_counter,
                    collecting, result_queue, ran, body_pushed,
                    return_values, results, result_tracebacks, test_counter,
                    test_status_counters, consecutive_failures, result_files >>

Outcomes == {"return", "abort", "raise"}

Next ==
    \/ ParseTest
    \/ SchedulerRun
    \/ \E uid \in DOMAIN status : Dispatch(uid)
    \/ \E uid \in DOMAIN status, st \in BodyStatus : BodyPush(uid, st)
    \/ \E uid \in DOMAIN status, outcome \in Outcomes : RunEnd(uid, outcome)
    \/ \E uid \in DOMAIN status : CollectBegin(uid)
    \/ CollectPop
    \/ CollectReturn
    \/ MainReturn

Spec == Init /\ [][Next]_vars

\* The run when every step that stays possible is taken in the end:
\* testsuite_main and the scheduler's loop go on, and the callable of every
\* fragment that was started ends.
Fairness ==
    /\ WF_vars(ParseTest)
    /\ WF_vars(SchedulerRun)
    /\ WF_vars(\E uid \in DOMAIN status : Dispatch(uid))
    /\ WF_vars(\E uid \in DOMAIN status, outcome \in Outcomes : RunEnd(uid, outcome))
    /\ WF_vars(\E uid \in DOMAIN status : CollectBegin(uid))
    /\ WF_vars(CollectPop)
    /\ WF_vars(CollectReturn)
    /\ WF_vars(MainReturn)

\* the runs explored with fairness: those of Init, the graphs with three
\* fragments that do not depend on each other with two jobs at most
InitLive ==
    /\ Init
    /\ (/\ config["U/test.yaml"].plan \in {"fan", "cross"}
        /\ config["T/test.yaml"].driver = "default")
          => jobs <= 2

SpecLive == InitLive /\ [][Next]_vars /\ Fairness

(***************************************************************************)
(* TestControl.interpret on every control list of at most MaxRules entries.*)
(***************************************************************************)
runVars == << jobs, sublist, test_list, config, pc, next_test, parsed, result, error,
              actions, status, fragment, index_counter, collecting,
              result_queue, ran, body_pushed, return_values, results,
              result_tracebacks, test_counter, test_status_counters,
              consecutive_failures, result_files, max_consecutive_failures,
              stop >>

InitControl ==
    /\ control \in Controls
    /\ interpreted = NotInterpreted
    /\ test_control = NoTestControl
    /\ reported = NotReported
    /\ jobs = 1
    /\ sublist = << >>
    /\ test_list = << >>
    /\ config = << >>
    /\ pc = "control"
    /\ next_test = 1
    /\ parsed = << >>
    /\ result = 0
    /\ error = "none"
    /\ actions = EmptyDAG
    /\ status = << >>
    /\ fragment = << >>
    /\ index_counter = 0
    /\ collecting = ""
    /\ result_queue = << >>
    /\ ran = << >>
    /\ body_pushed = << >>
    /\ return_values = << >>
    /\ results = << >>
    /\ result_tracebacks = << >>
    /\ test_counter = 0
    /\ test_status_counters = [s \in TestStatus |-> 0]
    /\ consecutive_failures = 0
    /\ result_files = << >>
    /\ max_consecutive_failures = 0
    /\ stop = FALSE

Interpret ==
    /\ pc = "control"
    /\ ~interpreted.called
    /\ ~test_control.set
    /\ interpreted' = [called |-> TRUE, out |-> interpret(control)]
    /\ test_control' = IF interpret(control).raised THEN test_control
                       ELSE [set |-> TRUE, tc |-> interpret(control).decision]
    /\ UNCHANGED << control, reported >>
    /\ UNCHANGED runVars

\* a driver makes its TestControl itself: TestControl(message, skip, xfail)
Construct(message, skip, xfail) ==
    /\ pc = "control"
    /\ ~control.present
    /\ ~interpreted.called
    /\ ~test_control.set
    /\ test_control' = [set |-> TRUE, tc |-> TestControl(message, skip, xfail)]
    /\ UNCHANGED << control, interpreted, reported >>
    /\ UNCHANGED runVars

\* the driver runs its test under its TestControl and reports a status
RunTest(observed) ==
    /\ pc = "control"
    /\ test_control.set
    /\ ~reported.done
    /\ reported' = [done |-> TRUE, observed |-> observed,
                    executed |-> Consume(test_control.tc, observed).executed,
                    status |-> Consume(test_control.tc, observed).status]
    /\ UNCHANGED << control, interpreted, test_control >>
    /\ UNCHANGED runVars

NextControl ==
    \/ Interpret
    \/ \E skip \in BOOLEAN, xfail \in BOOLEAN : Construct("None", skip, xfail)
    \/ \E observed \in TestStatus : RunTest(observed)

SpecControl == InitControl /\ [][NextControl]_vars

(***************************************************************************)
(* get_test_list for every list of at most MaxSelectors selectors, and the *)
(* registration of the tests it returns.                                   *)
(***************************************************************************)
InitList ==
    /\ sublist \in Sublists
    /\ test_list = << >>
    /\ pc = "list"
    /\ jobs = 1
    /\ max_consecutive_failures = 0
    /\ config \in {c \in [TestFiles -> UNION {ConfigsOf(f) : f \in TestFiles}] :
                     \A f \in TestFiles : c[f] \in ConfigsOf(f)}
    /\ next_test = 1
    /\ parsed = << >>
    /\ result = 0
    /\ error = "none"
    /\ actions = EmptyDAG
    /\ status = << >>
    /\ fragment = << >>
    /\ index_counter = 0
    /\ collecting = ""
    /\ result_queue = << >>
    /\ ran = << >>
    /\ body_pushed = << >>
    /\ return_values = << >>
    /\ results = << >>
    /\ result_tracebacks = << >>
    /\ test_counter = 0
    /\ test_status_counters = [s \in TestStatus |-> 0]
    /\ consecutive_failures = 0
    /\ result_files = << >>
    /\ stop = FALSE
    /\ control = [present |-> FALSE, islist |-> FALSE, entries |-> << >>]
    /\ interpreted = NotInterpreted
    /\ test_control = NoTestControl
    /\ reported = NotReported

\* testsuite_main sets self.test_list to what get_test_list returns for the
\* selectors of the command line
GetTestList ==
    /\ pc = "list"
    /\ test_list' = get_test_list(Found, sublist)
    /\ result_queue' = [i \in DOMAIN get_test_list(Found, sublist) |-> << >>]
    /\ pc' = "register"
    /\ UNCHANGED ctlVars
    /\ UNCHANGED << jobs, sublist, config, max_consecutive_failures, stop,
                    next_test, parsed, result, error, actions, status,
                    fragment, index_counter, collecting, ran, body_pushed,
                    return_values, results, result_tracebacks, test_counter,
                    test_status_counters, consecutive_failures, result_files >>

NextList ==
    \/ GetTestList
    \/ ParseTest

SpecList == InitList /\ [][NextList]_vars

(***************************************************************************)
(* The claims.                                                             *)
(***************************************************************************)
\* the key job_factory is to give predecessor k in a fragment of test name:
\* k without the prefix "<name>." when it has it, else k
KeyFor(name, k) ==
    IF Len(k) >= Len(name) + 1 /\ SubSeq(k, 1, Len(name)) = name
       /\ SubSeq(k, Len(name) + 1, Len(name) + 1) = "."
    THEN SubSeq(k, Len(name) + 2, Len(k))
    ELSE k

\* C1: a fragment is created only once collect_result has returned for each
\* of its predecessors, so that job_factory finds the return value of every
\* predecessor in return_values (no KeyError).
C1_PredecessorsCollected ==
    /\ error # "KeyError"
    /\ \A u \in DOMAIN fragment :
         \A p \in actions.preds[u] :
            /\ status[p] = "done"
            /\ p \in DOMAIN return_values

\* C1 witness: a fragment with predecessors was created
C1_Witness ==
    \E u \in DOMAIN fragment : actions.preds[u] # {}

\* C2: the fragments dispatched and not yet collected are never more than
\* --jobs.
C2_AtMostJobsInFlight ==
    Cardinality({u \in DOMAIN status : status[u] \in {"active", "finished"}}) <= jobs

\* C2 witness: with --jobs 1 one fragment is in flight while another vertex
\* has all its predecessors collected and waits for the token
C2_Witness ==
    /\ jobs = 1
    /\ \E u \in DOMAIN status : status[u] = "active"
    /\ \E w \in DOMAIN status :
         /\ status[w] = "waiting"
         /\ \A p \in actions.preds[w] : status[p] = "done"

\* C3: every test name of results has its result file written exactly once,
\* and the turn of collect_result that pops a result whose test name is in
\* results fails with the assertion error and records and writes nothing.
C3_OneResultPerName ==
    /\ [](/\ DOMAIN result_files = DOMAIN results
          /\ \A n \in DOMAIN result_files : result_files[n] = 1)
    /\ [][\A i \in DOMAIN result_queue :
            (/\ Len(result_queue'[i]) < Len(result_queue[i])
             /\ result_queue[i][Len(result_queue[i])].test_name \in DOMAIN results)
            => /\ pc' = "crashed"
               /\ error' = "AssertionError"
               /\ results' = results
               /\ result_files' = result_files
               /\ test_counter' = test_counter]_vars

\* C3 witness: collect_result met a second result for a recorded test name
C3_Witness ==
    /\ error = "AssertionError"
    /\ \E n \in DOMAIN results : result_files[n] = 1

\* C4: the step in which the callable of a fragment raises ends run normally
\* (testsuite_main goes on, the fragment is finished) and appends exactly one
\* result, ERROR and named "<test_name>__except<index>", to the queue of the
\* fragment's driver; and when testsuite_main returns every vertex of the
\* graph was dispatched and collected.
C4_ExceptionBecomesResult ==
    /\ [][\A u \in DOMAIN status :
            (/\ status[u] = "active"
             /\ status'[u] = "finished"
             /\ ran'[u].outcome = "raise")
            => /\ result_queue' =
                    [result_queue EXCEPT ![actions.data[u]] =
                        Append(@, [test_name |-> test_name(test_list[actions.data[u]])
                                                 \o "__except"
                                                 \o ToString(fragment[u].index),
                                   status |-> "ERROR", tb |-> u])]
               /\ pc' = pc
               /\ error' = error]_vars
    /\ [](pc = "done" =>
            \A u \in DOMAIN actions.data :
                status[u] = "done" /\ u \in DOMAIN return_values)

\* C4 witness: testsuite_main returned from a run of several fragments in
\* which a callable raised, and the ERROR result was recorded
C4_Witness ==
    /\ pc = "done"
    /\ Cardinality(DOMAIN actions.data) >= 2
    /\ \E u \in DOMAIN ran :
         /\ ran[u].outcome = "raise"
         /\ (test_name(test_list[actions.data[u]]) \o "__except"
                \o ToString(fragment[u].index)) \in DOMAIN results

\* C5: in the previous_values of a fragment of test T every predecessor uid
\* has its key (the uid without the prefix "T." when it has it, else the
\* uid) and that key is bound to the return value collected for that
\* predecessor.
C5_PreviousValuesKeys ==
    \A u \in DOMAIN fragment :
        \A k \in actions.preds[u] :
            LET key == KeyFor(test_name(test_list[actions.data[u]]), k)
            IN  /\ key \in DOMAIN fragment[u].previous_values
                /\ fragment[u].previous_values[key] = return_values[k]

\* an entry that is malformed or names an unknown kind
BadRule(e) == e.shape = "bad" \/ e.kind \notin {"NONE", "SKIP", "XFAIL"}

\* an entry on which interpret raises: a bad one, or one whose condition
\* raises when evaluated
FailingRule(e) == BadRule(e) \/ e.cond = "raise"

C7_FirstTrueRuleWins ==
    (/\ interpreted.called
     /\ ~control.present \/ control.islist
     /\ \A i \in DOMAIN control.entries : ~FailingRule(control.entries[i]))
    => LET true == {i \in DOMAIN control.entries : control.entries[i].cond = "True"}
           first == CHOOSE i \in true : \A j \in true : i <= j
           rule == control.entries[first]
       IN  /\ ~interpreted.out.raised
           /\ interpreted.out.decision =
                IF true = {}
                THEN [skip |-> FALSE, xfail |-> FALSE, message |-> "None"]
                ELSE [skip |-> rule.kind = "SKIP", xfail |-> rule.kind = "XFAIL",
                      message |-> IF rule.shape = "list3" THEN rule.message
                                  ELSE "None"]

\* C7 witness: interpret returned the XFAIL decision and the message of a
\* second rule, the condition of the first rule being false
C7_Witness ==
    /\ interpreted.called
    /\ ~interpreted.out.raised
    /\ Len(control.entries) = 2
    /\ control.entries[1].cond = "False"
    /\ control.entries[1].kind = "SKIP"
    /\ control.entries[2] = Entry("list3", "XFAIL", "True", "m2")
    /\ interpreted.out.decision = [skip |-> FALSE, xfail |-> TRUE, message |-> "m2"]

\* C8: the return value of a fragment whose callable raised is the exception;
\* collect_result stores it in return_values under the fragment's uid; every
\* successor that was dispatched has it as the value of the key of that
\* predecessor in its previous_values; and no successor is left undispatched
\* when testsuite_main returns.
C8_FailureForwarded ==
    \A u \in DOMAIN ran :
        ran[u].outcome = "raise" =>
            /\ fragment[u].return_value = ExcVal(u)
            /\ status[u] = "done" => return_values[u] = ExcVal(u)
            /\ \A s \in DOMAIN actions.data :
                 u \in actions.preds[s] =>
                    /\ pc = "done" => s \in DOMAIN fragment
                    /\ s \in DOMAIN fragment =>
                         LET key == KeyFor(test_name(test_list[actions.data[s]]), u)
                         IN  /\ key \in DOMAIN fragment[s].previous_values
                             /\ fragment[s].previous_values[key] = ExcVal(u)

\* C9: the step in which the callable of a fragment raises TestAbort ends run
\* normally (testsuite_main goes on, the fragment is finished), pushes nothing
\* to any result queue and leaves the fragment's return value None.
C9_AbortIsSilent ==
    [][\A u \in DOMAIN status :
         (/\ status[u] = "active"
          /\ status'[u] = "finished"
          /\ ran'[u].outcome = "abort")
         => /\ result_queue' = result_queue
            /\ fragment'[u].return_value = NoneVal
            /\ pc' = pc
            /\ error' = error]_vars

\* C9 witness: a fragment whose callable pushed a result and then raised
\* TestAbort was collected, and that result is the only one of its test
C9_Witness ==
    \E u \in DOMAIN ran :
        /\ ran[u].outcome = "abort"
        /\ body_pushed[u] = 1
        /\ status[u] = "done"
        /\ return_values[u] = NoneVal
        /\ test_counter = 1

\* C10: no failure to register a test stops testsuite_main: parse_test is
\* called for every test of the list and the scheduler is run; and the status
\* testsuite_main returns is 1 when some parse_test returned False and 0
\* otherwise.
C10_RegistrationFailuresContained ==
    /\ pc = "crashed" => error \in {"CycleError", "AssertionError", "KeyError"}
    /\ pc \in {"run", "collect", "done"} => Len(parsed) = Len(test_list)
    /\ pc = "done" =>
         result = IF \E i \in DOMAIN parsed : ~parsed[i] THEN 1 ELSE 0

\* the graph has a cycle: some vertices each have a predecessor among them
Cyclic ==
    \E S \in (SUBSET DOMAIN actions.data) \ {{}} :
        \A v \in S : actions.preds[v] \cap S # {}

\* C11: when the graph the tests contributed has a cycle, testsuite_main does
\* not get past the validation of the graph: it ends with the cycle error,
\* and no fragment was created, dispatched or run, also for the vertices that
\* are not on the cycle.
C11_CycleRejected ==
    Cyclic =>
        /\ pc \in {"register", "crashed"}
        /\ pc = "crashed" => error = "CycleError"
        /\ fragment = << >>
        /\ ran = << >>
        /\ index_counter = 0
        /\ \A i \in DOMAIN result_queue : result_queue[i] = << >>

\* C11 witness: the run was rejected for a cycle in a graph that also has a
\* vertex with no predecessor, which could have been dispatched
C11_Witness ==
    /\ pc = "crashed"
    /\ error = "CycleError"
    /\ Cyclic
    /\ \E v \in DOMAIN actions.data : actions.preds[v] = {}

\* C12: once the scheduler runs an acyclic graph, testsuite_main returns in
\* the end unless collect_result met a duplicate result; a vertex is
\* dispatched once and collected once (its state only goes from waiting to
\* active, finished and done); and when testsuite_main has returned every
\* vertex is done, has its fragment and its entry in return_values, and as
\* many fragments were created as the graph has vertices.
C12_RunReturns ==
    /\ (pc = "run") ~> (pc = "done" \/ (pc = "crashed" /\ error = "AssertionError"))
    /\ [][\A u \in DOMAIN status :
            /\ status[u] = "active" => status'[u] \in {"active", "finished"}
            /\ status[u] = "finished" => status'[u] \in {"finished", "done"}
            /\ status[u] = "done" => status'[u] = "done"
            /\ (status[u] = "done" /\ u \in DOMAIN return_values)
                  => return_values'[u] = return_values[u]]_vars
    /\ [](pc = "done" =>
            /\ DOMAIN fragment = DOMAIN actions.data
            /\ DOMAIN return_values = DOMAIN actions.data
            /\ index_counter = Cardinality(DOMAIN actions.data)
            /\ \A u \in DOMAIN actions.data : status[u] = "done")

\* C12 witness: testsuite_main returned from the run of a graph of three
\* vertices with an edge
C12_Witness ==
    /\ pc = "done"
    /\ Cardinality(DOMAIN actions.data) = 3
    /\ \E u \in DOMAIN actions.data : actions.preds[u] # {}
    /\ DOMAIN return_values = DOMAIN actions.data

C14_FirstInFirstOut ==
    [][\A i \in DOMAIN result_queue :
         Len(result_queue'[i]) < Len(result_queue[i])
            => result_queue'[i] = Tail(result_queue[i])]_vars

\* every result recorded so far is a failure
OnlyFailures ==
    \A n \in DOMAIN results : results[n] \in {"FAIL", "ERROR"}

\* C15: with a threshold N > 0, once more than N results were collected in a
\* row that are failures (here: more than N results, all of them failures),
\* no fragment is dispatched any more; with N = 0 testsuite_main returns only
\* when every vertex was run and collected.
C15_BreakerStops ==
    /\ [][(/\ max_consecutive_failures > 0
           /\ test_counter > max_consecutive_failures
           /\ OnlyFailures)
          => index_counter' = index_counter]_vars
    /\ []((max_consecutive_failures = 0 /\ pc = "done")
            => \A u \in DOMAIN actions.data : status[u] = "done")

\* C16: while a collect_result call is running no other one begins, no
\* fragment is created (job_factory does not read return_values) and no
\* vertex changes its state but the collected one when the call returns; and
\* return_values, results and the counters change only in the steps of a
\* collect_result call.
C16_CollectIsExclusive ==
    /\ []((pc = "collect" => collecting # "") /\ (pc = "run" => collecting = ""))
    /\ [][pc = "collect" =>
            /\ collecting' \in {collecting, ""}
            /\ DOMAIN fragment' = DOMAIN fragment
            /\ index_counter' = index_counter
            /\ return_values' = return_values
            /\ \A u \in DOMAIN status :
                 (status'[u] = "done" /\ status[u] # "done")
                    => (u = collecting /\ pc' = "run")]_vars
    /\ [][(\/ return_values' # return_values
           \/ results' # results
           \/ result_tracebacks' # result_tracebacks
           \/ test_counter' # test_counter
           \/ test_status_counters' # test_status_counters)
          => (pc' = "collect" /\ collecting' # "")]_vars

\* C16 witness: collect_result is in the middle of its loop (a result is
\* recorded and the queue is not empty) while a token is free and a vertex
\* is ready to be dispatched
C16_Witness ==
    /\ pc = "collect"
    /\ test_counter > 0
    /\ result_queue[actions.data[collecting]] # << >>
    /\ Cardinality({u \in DOMAIN status : status[u] \in {"active", "finished"}}) < jobs
    /\ \E w \in DOMAIN status :
         /\ status[w] = "waiting"
         /\ \A p \in actions.preds[w] : status[p] = "done"

ExceptResults == UNION {{ran[u].pushed[k] : k \in DOMAIN ran[u].pushed} : u \in DOMAIN ran}

\* C18: two different fragments whose callables raised, of one test or of
\* two, have ERROR results of different names; and the result on which
\* collect_result fails as a duplicate is never one of these ERROR results.
C18_ExceptNamesDiffer ==
    /\ [](\A u, v \in DOMAIN ran :
            (u # v /\ ran[u].outcome = "raise" /\ ran[v].outcome = "raise")
               => /\ Len(ran[u].pushed) = 1
                  /\ Len(ran[v].pushed) = 1
                  /\ ran[u].pushed[1].test_name # ran[v].pushed[1].test_name)
    /\ [][(error' = "AssertionError" /\ error = "none")
             => \A i \in DOMAIN result_queue :
                   Len(result_queue'[i]) < Len(result_queue[i])
                      => result_queue[i][Len(result_queue[i])] \notin ExceptResults]_vars

\* C18 witness: the callables of two fragments of one test raised and both
\* ERROR results were recorded
C18_Witness ==
    /\ pc = "done"
    /\ \E u, v \in DOMAIN ran :
         /\ u # v
         /\ actions.data[u] = actions.data[v]
         /\ ran[u].outcome = "raise"
         /\ ran[v].outcome = "raise"
         /\ ran[u].pushed[1].test_name \in DOMAIN results
         /\ ran[v].pushed[1].test_name \in DOMAIN results

RECURSIVE SumOver(_, _)
\* the sum of the values of function f over the set S of its arguments
SumOver(f, S) ==
    IF S = {} THEN 0
    ELSE LET x == CHOOSE y \in S : TRUE
         IN  f[x] + SumOver(f, S \ {x})

\* C19: in every state (between two recordings of collect_result, after its
\* calls, and after the one that failed on a duplicate) test_counter is the
\* number of entries of results and the sum of test_status_counters, results
\* and result_tracebacks have the same keys, and the counter of each status
\* is the number of test names recorded with it.
C19_BookkeepingConsistent ==
    /\ test_counter = Cardinality(DOMAIN results)
    /\ test_counter = SumOver(test_status_counters, DOMAIN test_status_counters)
    /\ DOMAIN result_tracebacks = DOMAIN results
    /\ \A st \in DOMAIN test_status_counters :
         test_status_counters[st] =
            Cardinality({n \in DOMAIN results : results[n] = st})

\* C19 witness: collect_result failed on a duplicate after it had recorded a
\* PASS and an ERROR result
C19_Witness ==
    /\ error = "AssertionError"
    /\ test_status_counters["PASS"] >= 1
    /\ test_status_counters["ERROR"] >= 1

\* C20: the turn of collect_result that fails on a duplicate test name leaves
\* results, result_tracebacks, test_counter and test_status_counters as they
\* were, the first result included, and writes no result file; what was
\* recorded before, in the same call or an earlier one, stays.
C20_DuplicateChangesNothing ==
    [][(error' = "AssertionError" /\ error = "none")
          => /\ results' = results
             /\ result_tracebacks' = result_tracebacks
             /\ test_counter' = test_counter
             /\ test_status_counters' = test_status_counters
             /\ result_files' = result_files]_vars

\* C20 witness: collect_result failed on a duplicate in the first call for a
\* driver, after that call had recorded the ERROR result of the collected
\* fragment and one result of the test's name
C20_Witness ==
    /\ error = "AssertionError"
    /\ collecting # ""
    /\ ran[collecting].outcome = "raise"
    /\ ran[collecting].pushed[1].test_name \in DOMAIN results
    /\ \A u \in DOMAIN status :
         actions.data[u] = actions.data[collecting] => status[u] # "done"
    /\ \E n \in DOMAIN results :
         /\ results[n] = "PASS"
         /\ result_files[n] = 1

C22_KeysNotMerged ==
    \A u \in DOMAIN fragment :
        /\ Cardinality(DOMAIN fragment[u].previous_values)
              = Cardinality(actions.preds[u])
        /\ \A k \in actions.preds[u] :
             \E key \in DOMAIN fragment[u].previous_values :
                fragment[u].previous_values[key] = return_values[k]

\* C23: a parse_test call that returns False leaves the vertices and the
\* edges of the graph as they were before it, and every fragment the
\* scheduler creates belongs to a test whose parse_test returned True.
C23_FailedTestAddsNothing ==
    /\ [][(/\ Len(parsed') = Len(parsed) + 1
           /\ ~parsed'[Len(parsed')])
          => actions' = actions]_vars
    /\ [](\A u \in DOMAIN fragment : parsed[actions.data[u]])

\* C24: a decision that interpret returns never has both skip and xfail.
C24_NeverSkipAndXfail ==
    (interpreted.called /\ ~interpreted.out.raised)
        => ~(interpreted.out.decision.skip /\ interpreted.out.decision.xfail)

\* C24 witness: interpret returned a decision for a list that has a SKIP rule
\* and an XFAIL rule whose conditions are both true
C24_Witness ==
    /\ interpreted.called
    /\ ~interpreted.out.raised
    /\ Len(control.entries) = 2
    /\ control.entries[1].kind = "XFAIL"
    /\ control.entries[1].cond = "True"
    /\ control.entries[2].kind = "SKIP"
    /\ control.entries[2].cond = "True"
    /\ interpreted.out.decision.xfail

\* C25: the list get_test_list returns has no test case file twice, whatever
\* the selectors, so that testsuite_main calls parse_test at most once for a
\* test case file.
C25_EachTestOnce ==
    pc # "list" =>
        \A i, j \in DOMAIN test_list :
            i # j => test_list[i] # test_list[j]

====
